---- MODULE Spec2Model ----
(***************************************************************************)
(* A model of tdunning/go-wspr: the four-word counter reduction            *)
(* (support.ReduceObservation, wspr.MicroTime), the continued-fraction     *)
(* solver (support.NearestFraction), the Si5351 divider solver             *)
(* (support.New) and the sampling pipeline of package pico (the chained    *)
(* PWM counters, the DMA gather, the PPS interrupt handler and the         *)
(* consumer loop of main).                                                 *)
(*                                                                         *)
(* The module holds several specifications over one set of variables.      *)
(* Each specification drives one part of the program and leaves the        *)
(* variables of the other parts at their initial values.                   *)
(***************************************************************************)
EXTENDS Integers, Sequences, FiniteSets, TLC

VARIABLES
    pc,      \* position of the running routine
    scale,   \* modulus of the low-order counter word
    th1,     \* first read of the high word
    tl1,     \* first read of the low word
    th2,     \* second read of the high word
    tl2,     \* second read of the low word
    t0,      \* value returned by the last ReduceObservation
    timer,   \* the free-running composite counter (hardware)
    prevT0,  \* value returned by the call before the last one
    atTl1,   \* history: the composite counter at the instant tl1 was read
    burst,   \* history: ticks seen since the running call read th1
    calls,   \* completed MicroTime calls, counted up to 2
    nfA,     \* NearestFraction: the argument a
    nfB,     \* NearestFraction: the argument b
    nfMax,   \* NearestFraction: the argument max_denominator
    nfOut,   \* NearestFraction: the results c, d, eps of the last call
    nfPrev,  \* the cap and the results of the call before the last one
    nfRet,   \* NearestFraction: where its caller goes on
    cfCall,  \* continuedFraction: the arguments a, b, e, f of the running call
    cfTerms, \* continuedFraction: the terms of the calls awaiting a result
    cfRes,   \* continuedFraction: the results c, d last returned
    siF0,    \* New: the argument f0, the clock frequency in Hz
    siPll,   \* New: the argument pll, the PLL frequency in Hz or 0
    siF,     \* New: the argument f, the output frequency in Hz
    siZ,     \* New: the local z
    siR,     \* New: the local r, the configuration being filled in
    siOut,   \* New: the configuration and the error returned
    pwm0,    \* PWM0.CTR, the fast counter (hardware)
    pwm1,    \* PWM1.CTR, the slow counter (hardware)
    result,  \* the buffer the DMA gather writes
    d1Read,  \* DMA_READ_ADDR of d1: the control block it reads next
    dma,     \* whether the gather is running
    isr,     \* position of the PPS interrupt handler
    isrI,    \* the handler's loop counter i
    isrS,    \* the Sample the handler is collecting
    samples, \* the channel of Samples, of capacity 2
    ErrorFlag,      \* the error flag register
    mainI,          \* main: the loop counter i
    missedSamples,  \* main: ticker events since the last Sample
    k0,             \* main: Count of the last Sample
    mainS,          \* main: the Sample received last
    edges,     \* history: PPS edges so far
    counted,   \* history: input cycles counted so far
    gatherLog, \* history: the transfers of the gather started last
    wrote,     \* history: for every buffer word, what wrote it last
    logged,    \* history: the event main serviced last and what it printed
    lastDelta, \* history: the delta main printed last and the cycles counted
    dropped,   \* history: a Sample was dropped since main last read ErrorFlag
    claimedChannels, \* dmaArbiter: the bits of the channels claimed
    arbOut,    \* history: the last call of the arbiter and what it returned
    pioPc,     \* PIO state machine: the instruction it is at
    pioX,      \* PIO state machine: scratch register x
    pin,       \* level of GPIO 10, the PPS signal
    rxFifo,    \* PIO state machine: the words in its receive FIFO
    pioSeen,   \* history: rising edges and pushes since the program started
    pwmEN,     \* rp.PWM.EN: the bits set in the enable register
    enOut      \* history: the last call of SetEN_CH and the register before

reduceVars == <<scale, th1, tl1, th2, tl2, t0>>
timerVars == <<timer, prevT0, atTl1, burst, calls>>
nfVars == <<nfA, nfB, nfMax, nfOut, nfPrev, nfRet, cfCall, cfTerms, cfRes>>
siVars == <<siF0, siPll, siF, siZ, siR, siOut>>
pwmVars == <<pwm0, pwm1, counted>>
dmaVars == <<result, d1Read, dma, gatherLog, wrote>>
isrVars == <<isr, isrI, isrS>>
mainVars == <<mainI, missedSamples, k0, mainS, logged, lastDelta>>
pipeVars ==
    <<pwmVars, dmaVars, isrVars, samples, ErrorFlag, mainVars, edges,
      dropped>>
arbVars == <<claimedChannels, arbOut>>
pioVars == <<pioPc, pioX, pin, rxFifo, pioSeen>>
enVars == <<pwmEN, enOut>>
setupVars == <<arbVars, pioVars, enVars>>
vars == <<pc, reduceVars, timerVars, nfVars, siVars, pipeVars, setupVars>>

\* what the steps of each specification leave alone
outsideReduce == <<timerVars, nfVars, siVars, pipeVars, setupVars>>
outsideTimer == <<nfVars, siVars, pipeVars, setupVars>>
outsideNf == <<reduceVars, timerVars, siVars, pipeVars, setupVars>>
outsideSi == <<reduceVars, timerVars, pipeVars, setupVars>>
outsidePipe ==
    <<reduceVars, prevT0, atTl1, burst, calls, nfVars, siVars, setupVars>>
outsideSetup == <<pc, reduceVars, timerVars, nfVars, siVars, pipeVars>>

-----------------------------------------------------------------------------
(* Bounds of the model.                                                    *)

\* Bits of a counter word in the model; uint32 is WordBits wide and uint64
\* is 2 * WordBits wide.
WordBits == 2
\* A low-word modulus that is not a power of two (the PWM pair's fastCycle).
FastCycle == 3
\* The composite counter is not ticked beyond this value.
MaxTimer == 9
\* Ticks that may fall inside one four-word read.
MaxBurst == 1
\* NearestFraction is applied to every a in 0 .. MaxA, b in 1 .. MaxB and
\* max_denominator in 1 .. MaxDen (and to a few large arguments).
MaxA == 9
MaxB == 7
MaxDen == 6
\* New is applied to every f from LowSpan Hz below the lowest frequency its
\* test expects it to accept.
LowSpan == 15
\* PPS edges of one run of the pipeline.
MaxEdges == 4
\* Control blocks d1 reads behind the list before it reads zeros.
MaxBehind == 1
\* PPS edges of one run of the handler against a late gather.
RaceEdges == 2
\* PPS edges while the counters are followed count by count
CountedEdges == 3
\* Input cycles the PWM pair counts in one run of the pipeline.
MaxCounted == 2
\* Iterations of the handler's wait for the gather (1000 in the source).
MaxPoll == 2
\* Events main's loop services before it leaves (100 in the source).
MaxEvents == 4

Pow2(n) == 2 ^ n
Words == 0 .. (Pow2(WordBits) - 1)
Uint32(x) == x % Pow2(WordBits)
Uint64(x) == x % Pow2(2 * WordBits)

-----------------------------------------------------------------------------
(* Unbounded naturals.  Go's uint64 values reach 2^64 and the float64       *)
(* mantissa products reach 2^106, beyond the integers of the model checker; *)
(* a natural number is here the sequence of its base-2^15 limbs, least      *)
(* significant first, with no leading zero limb (zero is << >>).            *)

Base == 2 ^ 15

Limb(x, i) == IF 1 <= i /\ i <= Len(x) THEN x[i] ELSE 0

\* x without its leading zero limbs
BNorm(x) ==
    IF x = << >> \/ x[Len(x)] # 0
    THEN x
    ELSE LET nz == {i \in 1 .. Len(x) : x[i] # 0}
         IN  IF nz = {}
             THEN << >>
             ELSE SubSeq(x, 1, CHOOSE i \in nz : \A j \in nz : j <= i)

\* for 0 <= n < 2^31
BFromInt(n) ==
    BNorm(<<n % Base, (n \div Base) % Base, n \div (Base * Base)>>)

\* for x < 2^31
BToInt(x) == Limb(x, 1) + Base * Limb(x, 2) + Base * Base * Limb(x, 3)

\* whether x + y carries into limb i: a limb below it overflows and every
\* limb between passes the carry on
BCarry(x, y, i) ==
    \E j \in 1 .. (i - 1) :
        /\ Limb(x, j) + Limb(y, j) >= Base
        /\ \A k \in (j + 1) .. (i - 1) : Limb(x, k) + Limb(y, k) = Base - 1

BAdd(x, y) ==
    IF y = << >> THEN x
    ELSE IF x = << >> THEN y
    ELSE
    LET n == IF Len(x) > Len(y) THEN Len(x) ELSE Len(y)
    IN  BNorm([i \in 1 .. (n + 1) |->
                  (Limb(x, i) + Limb(y, i)
                      + (IF BCarry(x, y, i) THEN 1 ELSE 0)) % Base])

\* whether x - y borrows from limb i
BBorrow(x, y, i) ==
    \E j \in 1 .. (i - 1) :
        /\ Limb(x, j) < Limb(y, j)
        /\ \A k \in (j + 1) .. (i - 1) : Limb(x, k) = Limb(y, k)

\* x - y for x >= y
BSub(x, y) ==
    IF y = << >> THEN x
    ELSE IF x = y THEN << >>
    ELSE
    BNorm([i \in 1 .. Len(x) |->
              (Base + x[i] - Limb(y, i)
                  - (IF BBorrow(x, y, i) THEN 1 ELSE 0)) % Base])

\* -1, 0 or 1 as x < y, x = y or x > y
BCmp(x, y) ==
    IF Len(x) > Len(y) THEN 1
    ELSE IF Len(x) < Len(y) THEN -1
    ELSE LET ne == {i \in 1 .. Len(x) : x[i] # y[i]}
         IN  IF ne = {}
             THEN 0
             ELSE LET top == CHOOSE i \in ne : \A j \in ne : j <= i
                  IN  IF x[top] > y[top] THEN 1 ELSE -1

BLess(x, y) == BCmp(x, y) < 0
BLeq(x, y) == BCmp(x, y) <= 0

\* |x - y|
BDist(x, y) == IF BLess(x, y) THEN BSub(y, x) ELSE BSub(x, y)

\* x * k for one limb k: the low halves of the limb products plus their
\* high halves one limb up
BMulLimb(x, k) ==
    IF k = 0 \/ x = << >>
    THEN << >>
    ELSE BAdd([i \in 1 .. Len(x) |-> (x[i] * k) % Base],
              [i \in 1 .. (Len(x) + 1) |-> (Limb(x, i - 1) * k) \div Base])

BShiftLimb(x) == IF x = << >> THEN << >> ELSE <<0>> \o x

\* x * k + Base * hi for one limb k
BMulAcc(x, k, hi) ==
    IF hi = << >>
    THEN BMulLimb(x, k)
    ELSE BAdd(BMulLimb(x, k), BShiftLimb(hi))

RECURSIVE BMulFrom(_, _, _)
\* x times the limbs i .. Len(y) of y
BMulFrom(x, y, i) ==
    IF i > Len(y)
    THEN << >>
    ELSE BMulAcc(x, y[i], BMulFrom(x, y, i + 1))

BMul(x, y) == IF x = << >> THEN << >> ELSE BMulFrom(x, y, 1)

\* x * 2^k and x div 2^k, limb by limb
BPow2(k) == [i \in 1 .. (k \div 15) |-> 0] \o <<2 ^ (k % 15)>>
BShlBits(x, r) ==
    BNorm([i \in 1 .. (Len(x) + 1) |->
              ((Limb(x, i) * 2 ^ r) % Base)
                  + ((Limb(x, i - 1) * 2 ^ r) \div Base)])
BShrBits(x, r) ==
    BNorm([i \in 1 .. Len(x) |->
              (x[i] \div 2 ^ r) + (Limb(x, i + 1) % 2 ^ r) * 2 ^ (15 - r)])
BShl(x, k) ==
    IF x = << >>
    THEN << >>
    ELSE [i \in 1 .. (k \div 15) |-> 0] \o BShlBits(x, k % 15)
BShr(x, k) ==
    IF k \div 15 >= Len(x)
    THEN << >>
    ELSE BShrBits(SubSeq(x, k \div 15 + 1, Len(x)), k % 15)

\* the number of bits of x: 0 for 0, else the n with 2^(n-1) <= x < 2^n
BBitLen(x) ==
    IF x = << >>
    THEN 0
    ELSE 15 * (Len(x) - 1)
         + (CHOOSE n \in 1 .. 15 : 2 ^ (n - 1) <= x[Len(x)] /\ x[Len(x)] < 2 ^ n)

\* The digit of a long division by y, whose top limb is at least Base/2, as
\* estimated from the top limbs of the remainder rem: at most 2 too large.
BEstimate(y, rem, n) ==
    IF (Limb(rem, n + 1) * Base + Limb(rem, n)) \div y[n] < Base
    THEN (Limb(rem, n + 1) * Base + Limb(rem, n)) \div y[n]
    ELSE Base - 1

RECURSIVE BDigit(_, _, _)
\* the largest d <= qhat with y * d <= rem
BDigit(y, rem, qhat) ==
    IF BLeq(BMulLimb(y, qhat), rem) THEN qhat ELSE BDigit(y, rem, qhat - 1)

\* the digit d put below the quotient q, and what is left of rem
BDivPut(y, rem, q, d) ==
    IF d = 0
    THEN <<BShiftLimb(q), rem>>
    ELSE <<<<d>> \o q, BSub(rem, BMulLimb(y, d))>>

\* One digit of the long division by y: hi is <<quotient, remainder>> of
\* the limbs above limb.
BDivStep(y, limb, hi) ==
    IF hi[2] = << >> /\ limb = 0
    THEN <<BShiftLimb(hi[1]), << >>>>
    ELSE BDivPut(y, <<limb>> \o hi[2], hi[1],
                 BDigit(y, <<limb>> \o hi[2],
                        BEstimate(y, <<limb>> \o hi[2], Len(y))))

RECURSIVE BDivModFrom(_, _, _)
\* quotient and remainder of the limbs i .. Len(x) of x by y; fewer limbs
\* than y has are a remainder
BDivModFrom(x, y, i) ==
    IF i + Len(y) - 1 > Len(x)
    THEN <<<< >>, IF i > Len(x) THEN << >> ELSE SubSeq(x, i, Len(x))>>
    ELSE BDivStep(y, x[i], BDivModFrom(x, y, i + 1))

\* the remainder of a division of operands shifted by r bits shifted back
BDivUnshift(qr, r) == <<qr[1], BShrBits(qr[2], r)>>

\* <<x div y, x mod y>> for y > 0, by long division limb by limb, x and y
\* shifted to bring the top limb of y to Base/2 or more
BDivMod(x, y) ==
    BDivUnshift(BDivModFrom(BShlBits(x, 15 * Len(y) - BBitLen(y)),
                            BShlBits(y, 15 * Len(y) - BBitLen(y)), 1),
                15 * Len(y) - BBitLen(y))

BDiv(x, y) == BDivMod(x, y)[1]
BMod(x, y) == BDivMod(x, y)[2]

BOdd(x) == x # << >> /\ x[1] % 2 = 1

-----------------------------------------------------------------------------
(* float64: sign s, mantissa m (a natural below 2^53, at least 2^52 unless  *)
(* zero) and exponent e, with value (-1)^s * m * 2^e.  Every operation      *)
(* computes the exact result and rounds it to nearest, ties to even, as     *)
(* IEEE 754 does.  A division by zero yields an infinity (mantissa << >>,   *)
(* exponent 1).  Subnormals, overflow and NaN (0/0, Inf-Inf, Inf/Inf,       *)
(* 0*Inf) are out of the range of the values modelled.                      *)

MantBits == 53

FZero == [s |-> 0, m |-> << >>, e |-> 0]
FInf(sgn) == [s |-> sgn, m |-> << >>, e |-> 1]
IsZero(x) == x.m = << >> /\ x.e = 0
IsInf(x) == x.m = << >> /\ x.e = 1

\* a mantissa q that rounding has carried to 2^53 is 2^52 one exponent up
FPack(sgn, q, e) ==
    IF BBitLen(q) > MantBits
    THEN [s |-> sgn, m |-> BPow2(MantBits - 1), e |-> e + 1]
    ELSE [s |-> sgn, m |-> q, e |-> e]

\* to nearest, ties to even: c is -1, 0 or 1 as the part cut off is below,
\* at or above one half
FRoundUp(q0, c, sticky) == c > 0 \/ (c = 0 /\ (sticky \/ BOdd(q0)))

\* M with its sh low bits cut off and rounded, q0 being M div 2^sh
FRoundTo(sgn, M, E, sticky, sh, q0) ==
    FPack(sgn,
          IF FRoundUp(q0, BCmp(BSub(M, BShl(q0, sh)), BPow2(sh - 1)), sticky)
          THEN BAdd(q0, <<1>>)
          ELSE q0,
          E + sh)

\* M of n bits brought to MantBits bits
FRoundAt(sgn, M, E, sticky, n) ==
    IF n <= MantBits
    THEN [s |-> sgn, m |-> BShl(M, MantBits - n), e |-> E - (MantBits - n)]
    ELSE FRoundTo(sgn, M, E, sticky, n - MantBits, BShr(M, n - MantBits))

\* the float64 nearest to (-1)^sgn * (M + t) * 2^E, where 0 < t < 1 iff sticky
FRound(sgn, M, E, sticky) ==
    IF M = << >> THEN FZero ELSE FRoundAt(sgn, M, E, sticky, BBitLen(M))

\* float64(n) for an unsigned integer n
FFromNat(n) == FRound(0, n, 0, FALSE)
FInt(n) == FFromNat(BFromInt(n))

FNeg(x) == IF IsZero(x) THEN x ELSE [x EXCEPT !.s = 1 - x.s]
FAbs(x) == [x EXCEPT !.s = 0]

FMul(x, y) ==
    IF IsInf(x) \/ IsInf(y) THEN FInf((x.s + y.s) % 2)
    ELSE FRound((x.s + y.s) % 2, BMul(x.m, y.m), x.e + y.e, FALSE)

\* the quotient and remainder qr of the mantissas rounded
FDivRound(sgn, qr, e) == FRound(sgn, qr[1], e, qr[2] # << >>)

FDiv(x, y) ==
    IF IsInf(x) \/ IsZero(y) THEN FInf((x.s + y.s) % 2)
    ELSE IF IsZero(x) \/ IsInf(y) THEN FZero
    ELSE FDivRound((x.s + y.s) % 2,
                   BDivMod(BShl(x.m, MantBits + 2), y.m),
                   x.e - y.e - (MantBits + 2))

\* x + y for the mantissas mx, my of x, y brought to the exponent e
FAddAligned(x, y, mx, my, e) ==
    IF x.s = y.s
    THEN FRound(x.s, BAdd(mx, my), e, FALSE)
    ELSE FRound(IF BLess(mx, my) THEN y.s ELSE x.s, BDist(mx, my), e, FALSE)

FAddAt(x, y, e) == FAddAligned(x, y, BShl(x.m, x.e - e), BShl(y.m, y.e - e), e)

FAdd(x, y) ==
    IF IsInf(x) \/ IsZero(y) THEN x
    ELSE IF IsInf(y) \/ IsZero(x) THEN y
    ELSE FAddAt(x, y, IF x.e < y.e THEN x.e ELSE y.e)

FSub(x, y) == FAdd(x, FNeg(y))

\* -1, 0 or 1 as x < 0, x = 0 or x > 0
FSign(x) == IF IsZero(x) THEN 0 ELSE IF x.s = 1 THEN -1 ELSE 1

\* -1, 0 or 1 as |x| < |y|, |x| = |y| or |x| > |y|, for x and y not zero
FCmpAbs(x, y) ==
    IF IsInf(x) THEN (IF IsInf(y) THEN 0 ELSE 1)
    ELSE IF IsInf(y) THEN -1
    ELSE IF x.e > y.e THEN 1
    ELSE IF x.e < y.e THEN -1
    ELSE BCmp(x.m, y.m)

\* -1, 0 or 1 as x < y, x = y or x > y
FCmp(x, y) ==
    IF FSign(x) # FSign(y)
    THEN (IF FSign(x) < FSign(y) THEN -1 ELSE 1)
    ELSE IF FSign(x) = 0 THEN 0
    ELSE FSign(x) * FCmpAbs(x, y)

FLess(x, y) == FCmp(x, y) < 0
FLeq(x, y) == FCmp(x, y) <= 0

\* uint64(x) for a finite x with 0 <= x < 2^64: the integer part of x
FTrunc(x) ==
    IF x.e >= 0 THEN BShl(x.m, x.e) ELSE BShr(x.m, 0 - x.e)

-----------------------------------------------------------------------------
(* The values of the variables a specification does not drive.             *)

BZero == << >>
BOne == <<1>>

\* the named results c, d, eps of NearestFraction before it assigns them
NfZero == [c |-> BZero, d |-> BZero, eps |-> FZero]

\* no call of continuedFraction is running
CfZero == [a |-> BZero, b |-> BZero, e |-> BZero, f |-> BZero]

ReduceIdle ==
    /\ scale = 0
    /\ th1 = 0 /\ tl1 = 0 /\ th2 = 0 /\ tl2 = 0
    /\ t0 = 0

TimerIdle ==
    /\ timer = 0
    /\ prevT0 = 0
    /\ atTl1 = 0
    /\ burst = 0
    /\ calls = 0

NfIdle ==
    /\ nfA = BZero
    /\ nfB = BZero
    /\ nfMax = 0
    /\ nfOut = NfZero
    /\ nfPrev = [max |-> 0, out |-> NfZero]
    /\ nfRet = "returned"
    /\ cfCall = CfZero
    /\ cfTerms = << >>
    /\ cfRes = [c |-> BZero, d |-> BZero]

\* Si5351Config{}: the configuration every field of which is zero
Si5351ConfigZero ==
    [f0 |-> FZero, pll |-> FZero, f |-> FZero,
     a0 |-> 0, b0 |-> 0, c0 |-> 0, a1 |-> 0, b1 |-> 0, c1 |-> 0, r |-> 0,
     eps |-> FZero]

SiIdle ==
    /\ siF0 = 0
    /\ siPll = 0
    /\ siF = 0
    /\ siZ = FZero
    /\ siR = Si5351ConfigZero
    /\ siOut = [cfg |-> Si5351ConfigZero, err |-> "nil"]

\* slowCycle has the value of fastCycle
SlowCycle == FastCycle

\* The result buffer before the first gather: every word is zero.
ResultZero ==
    [th1 |-> 0, tl1 |-> 0, th2 |-> 0, tl2 |-> 0,
     b1 |-> 0, a1 |-> 0, b2 |-> 0, a2 |-> 0]

\* History of the buffer before the first gather: nothing wrote a word (0).
\* A word is written by the gather of the n-th edge (n) or by Collect's
\* taint (-1); at is the number of cycles counted when a1 was gathered.
WroteZero ==
    [th1 |-> 0, tl1 |-> 0, th2 |-> 0, tl2 |-> 0,
     b1 |-> 0, a1 |-> 0, b2 |-> 0, a2 |-> 0, at |-> 0]

\* Sample{}, with the history of the words it was read from
SampleZero ==
    [T |-> 0, Count |-> 0, TH1 |-> 0, TL1 |-> 0, TH2 |-> 0, TL2 |-> 0,
     B1 |-> 0, A1 |-> 0, B2 |-> 0, A2 |-> 0, from |-> WroteZero]

\* The two counters after c cycles of the signal were counted since they
\* were enabled at zero: each runs from 0 to its top and wraps, the slow one
\* advancing when the fast one wraps.
CountersAt(c) ==
    /\ pwm0 = c % (FastCycle + 1)
    /\ pwm1 = (c \div (FastCycle + 1)) % (SlowCycle + 1)
    /\ counted = 0

\* The rest of the pipeline after Setup: d1 points at the first control
\* block, nothing was gathered, the channel is empty.
HandlerIdle ==
    /\ result = ResultZero
    /\ d1Read = 1
    /\ dma = "idle"
    /\ gatherLog = << >>
    /\ wrote = WroteZero
    /\ isr = "idle" /\ isrI = 0 /\ isrS = SampleZero
    /\ samples = << >>
    /\ ErrorFlag = 0
    /\ mainI = 0 /\ missedSamples = 0 /\ k0 = 0 /\ mainS = SampleZero
    /\ logged = [event |-> "none", said |-> FALSE, misses |-> 0, error |-> 0]
    /\ lastDelta = [delta |-> 0, n |-> 0, at |-> 0,
                    whole |-> FALSE, both |-> FALSE]
    /\ edges = 0
    /\ dropped = FALSE

\* The pipeline right after Setup
PipeIdle == CountersAt(0) /\ HandlerIdle

\* The arbiter before any claim: var _DMA = &dmaArbiter{}
ArbIdle ==
    /\ claimedChannels = {}
    /\ arbOut = [op |-> "none", idx |-> 0, ok |-> FALSE, before |-> {}]

\* The PIO state machine before its program is started
PioIdle ==
    /\ pioPc = "set" /\ pioX = 0 /\ pin = 0 /\ rxFifo = << >>
    /\ pioSeen = [rises |-> 0, pushes |-> 0, held |-> 0]

\* The enable register of the PWM block at reset
EnIdle ==
    /\ pwmEN = {}
    /\ enOut = [channels |-> {}, value |-> 0, old |-> {}]

\* The peripherals Setup sets up, before it runs
SetupIdle == ArbIdle /\ PioIdle /\ EnIdle

-----------------------------------------------------------------------------
(* support.ReduceObservation                                               *)

\* The variant of src/wspr/mtime.go: on an observed increment it pairs the
\* second high word with the second low word.
ReduceObservationSecondPair(s, h1, l1, h2, l2) ==
    IF h1 = h2
    THEN Uint64(h1 * s + l1)
    ELSE Uint64(h2 * s + l2)

ReduceObservation(s, h1, l1, h2, l2) ==
    IF h1 = h2
    THEN Uint64(h1 * s + l1)
    ELSE IF l1 < l2
         THEN Uint64(h2 * s + l1)
         ELSE Uint64(h1 * s + l1)

-----------------------------------------------------------------------------
(* support.NearestFraction and support.continuedFraction                   *)
(*                                                                         *)
(* continuedFraction calls itself once per term.  The running call is      *)
(* cfCall; the calls below it wait at line 88 for its results, each        *)
(* holding the term it computed, and are the sequence cfTerms, outermost   *)
(* first.  One step runs one call down to its return or to its recursive   *)
(* call, or lets the innermost waiting call finish at line 89.             *)

\* The limit is tested against the parent's denominator e, one term late.
TooDeepLate(denom, e, max_denominator) == BLess(max_denominator, e)

\* line 77: denom > max_denominator
TooDeep(denom, e, max_denominator) == BLess(max_denominator, denom)

\* A too-deep term answers 1/1 instead of the (1, 0) the caller drops.
SentinelUnit == [c |-> BOne, d |-> BOne]

\* line 78: return 1, 0
Sentinel == [c |-> BOne, d |-> BZero]

\* line 89: return term*cx + dx, cx
Convergent(term, cxdx) ==
    [c |-> BAdd(BMul(term, cxdx.c), cxdx.d), d |-> cxdx.c]

\* line 49: NearestFraction(a, b, max_denominator) enters
\* continuedFraction(a, b, 0, 1, max_denominator); its caller goes on at ret
EnterNearestFraction(a, b, max_denominator, ret) ==
    /\ nfA' = a
    /\ nfB' = b
    /\ nfMax' = max_denominator
    /\ nfRet' = ret
    /\ cfCall' = [a |-> a, b |-> b, e |-> BZero, f |-> BOne]
    /\ cfTerms' = << >>
    /\ pc' = "continuedFraction"

\* lines 75-88
CfCall ==
    /\ pc = "continuedFraction"
    /\ LET term == BDiv(cfCall.a, cfCall.b)
           denom == BAdd(cfCall.f, BMul(term, cfCall.e))
           ax == BSub(cfCall.a, BMul(term, cfCall.b))
       IN  IF TooDeep(denom, cfCall.e, BFromInt(nfMax))
           THEN /\ cfRes' = Sentinel
                /\ pc' = "cfReturn"
                /\ UNCHANGED <<cfCall, cfTerms>>
           ELSE IF ax = BZero
                THEN /\ cfRes' = [c |-> term, d |-> BOne]
                     /\ pc' = "cfReturn"
                     /\ UNCHANGED <<cfCall, cfTerms>>
                ELSE /\ cfCall' = [a |-> cfCall.b, b |-> ax,
                                   e |-> denom, f |-> cfCall.e]
                     /\ cfTerms' = Append(cfTerms, term)
                     /\ UNCHANGED <<pc, cfRes>>
    /\ UNCHANGED <<nfA, nfB, nfMax, nfOut, nfPrev, nfRet, outsideNf>>

\* lines 88-89: the innermost waiting call takes cx, dx and returns
CfReturn ==
    /\ pc = "cfReturn"
    /\ cfTerms # << >>
    /\ cfRes' = Convergent(cfTerms[Len(cfTerms)], cfRes)
    /\ cfTerms' = SubSeq(cfTerms, 1, Len(cfTerms) - 1)
    /\ UNCHANGED <<pc, cfCall, nfA, nfB, nfMax, nfOut, nfPrev, nfRet,
                   outsideNf>>

\* lines 49-51: the outermost call has returned c, d
NearestReturn ==
    /\ pc = "cfReturn"
    /\ cfTerms = << >>
    /\ nfOut' = [c |-> cfRes.c,
                 d |-> cfRes.d,
                 eps |-> FSub(FDiv(FFromNat(nfA), FFromNat(nfB)),
                              FDiv(FFromNat(cfRes.c), FFromNat(cfRes.d)))]
    /\ pc' = nfRet
    /\ UNCHANGED <<cfCall, cfTerms, cfRes, nfA, nfB, nfMax, nfPrev, nfRet,
                   outsideNf>>

-----------------------------------------------------------------------------
(* SpecNearest: NearestFraction applied to given arguments, and applied    *)
(* again to the same a and b with a larger max_denominator.                *)

\* uint64 arguments beyond 2^53, where float64(a) rounds: 2^53 + 1 = 3 * k
\* and 1025 * (2^53 - 1).
TwoTo53 == BPow2(53)
LargeArgs ==
    { <<BAdd(TwoTo53, BOne), BFromInt(3)>>,
      <<BMul(BFromInt(1025), BSub(TwoTo53, BOne)), BFromInt(1025)>>,
      <<BAdd(TwoTo53, BOne), BOne>> }

NfArgs ==
    {<<BFromInt(x), BFromInt(y)>> : x \in 0 .. MaxA, y \in 1 .. MaxB}
        \cup LargeArgs

InitNearest ==
    /\ pc = "nearest"
    /\ \E ab \in NfArgs : nfA = ab[1] /\ nfB = ab[2]
    /\ nfMax \in 1 .. MaxDen
    /\ nfOut = NfZero
    /\ nfPrev = [max |-> 0, out |-> NfZero]
    /\ nfRet = "returned"
    /\ cfCall = CfZero
    /\ cfTerms = << >>
    /\ cfRes = [c |-> BZero, d |-> BZero]
    /\ ReduceIdle
    /\ TimerIdle
    /\ SiIdle
    /\ PipeIdle
    /\ SetupIdle

CallNearest ==
    /\ pc = "nearest"
    /\ EnterNearestFraction(nfA, nfB, nfMax, "returned")
    /\ UNCHANGED <<nfOut, nfPrev, cfRes, outsideNf>>

CallNearestLarger ==
    /\ pc = "returned"
    /\ \E m \in (nfMax + 1) .. MaxDen :
          EnterNearestFraction(nfA, nfB, m, "returned")
    /\ nfPrev' = [max |-> nfMax, out |-> nfOut]
    /\ UNCHANGED <<nfOut, cfRes, outsideNf>>

NextNearest ==
    CallNearest \/ CallNearestLarger \/ CfCall \/ CfReturn \/ NearestReturn

SpecNearest == InitNearest /\ [][NextNearest]_vars

\* |a/b - p/q| < |a/b - c/d| for b, q, d > 0, compared exactly: both sides
\* multiplied by b*q*d.
StrictlyCloser(a, b, p, q, c, d) ==
    BLess(BMul(BDist(BMul(a, q), BMul(p, b)), d),
          BMul(BDist(BMul(a, d), BMul(c, b)), q))

\* The numerators p of the fractions p/q nearest to a/b: floor(a*q/b) and
\* the next integer; no other p/q is closer to a/b than the better of these.
NearestNumerators(a, b, q) ==
    LET fl == BDiv(BMul(a, BFromInt(q)), b) IN {fl, BAdd(fl, BOne)}

\* some p/q with 1 <= q <= maxq is strictly closer to a/b than c/d
CloserWithin(a, b, maxq, c, d) ==
    \E q \in 1 .. maxq :
        \E p \in NearestNumerators(a, b, q) :
            StrictlyCloser(a, b, p, BFromInt(q), c, d)

\* C4: no fraction p/q with 1 <= q <= maxDenominator is strictly closer to
\* a/b than the c/d returned.
C4_BestWithinCap ==
    pc = "returned" =>
        ~CloserWithin(nfA, nfB, nfMax, nfOut.c, nfOut.d)

\* C5: no fraction p/q with 1 <= q <= d, the denominator returned, is
\* strictly closer to a/b than c/d.
C5_BestForAchievedDenominator ==
    pc = "returned" =>
        /\ nfOut.d # BZero
        /\ ~CloserWithin(nfA, nfB, BToInt(nfOut.d), nfOut.c, nfOut.d)

\* 3/7 under the cap 5 gives 1/2, a truncated expansion, and 2/5 with a
\* denominator above that of 1/2 is closer.
C5_Witness ==
    /\ pc = "returned"
    /\ nfA = BFromInt(3) /\ nfB = BFromInt(7) /\ nfMax = 5
    /\ nfOut.c = BFromInt(1) /\ nfOut.d = BFromInt(2)
    /\ CloserWithin(nfA, nfB, nfMax, nfOut.c, nfOut.d)

\* C6: the denominator returned satisfies 1 <= d <= maxDenominator; the
\* (1, 0) of a too-deep term never is the result.
C6_DenominatorWithinCap ==
    pc = "returned" =>
        /\ nfOut.d # BZero
        /\ BLeq(nfOut.d, BFromInt(nfMax))

\* 2/5 under the cap 1: the second term is too deep, answers (1, 0), and
\* the result is 0/1.
C6_Witness ==
    /\ pc = "returned"
    /\ nfA = BFromInt(2) /\ nfB = BFromInt(5) /\ nfMax = 1
    /\ nfOut.c = BZero /\ nfOut.d = BOne

\* |a/b - c2/d2| <= |a/b - c1/d1|, both sides multiplied by b*d1*d2
ErrorLeq(a, b, c2, d2, c1, d1) ==
    BLeq(BMul(BDist(BMul(a, d2), BMul(c2, b)), d1),
         BMul(BDist(BMul(a, d1), BMul(c1, b)), d2))

\* C7: for m1 <= m2 the absolute error of NearestFraction(a, b, m2) is at
\* most that of NearestFraction(a, b, m1).
C7_ErrorMonotone ==
    (pc = "returned" /\ nfPrev.max # 0) =>
        ErrorLeq(nfA, nfB, nfOut.c, nfOut.d, nfPrev.out.c, nfPrev.out.d)

\* 2/5: the cap 1 gives 0/1, the cap 4 gives 1/2, a smaller error.
C7_Witness ==
    /\ pc = "returned"
    /\ nfA = BFromInt(2) /\ nfB = BFromInt(5)
    /\ nfPrev.max = 1 /\ nfPrev.out.c = BZero /\ nfPrev.out.d = BOne
    /\ nfMax = 4 /\ nfOut.c = BOne /\ nfOut.d = BFromInt(2)
    /\ ~ErrorLeq(nfA, nfB, nfPrev.out.c, nfPrev.out.d, nfOut.c, nfOut.d)

\* C8: when b divides a, a = k*b, the result is numerator k, denominator 1
\* and error 0.
C8_ExactDivision ==
    (pc = "returned" /\ BMod(nfA, nfB) = BZero) =>
        /\ nfOut.c = BDiv(nfA, nfB)
        /\ nfOut.d = BOne
        /\ IsZero(nfOut.eps)

-----------------------------------------------------------------------------
(* SpecReduce: ReduceObservation applied to arbitrary argument words.      *)

ScaleArgs == 1 .. (Pow2(WordBits) + 1)

InitReduce ==
    /\ pc = "reduce"
    /\ scale \in ScaleArgs
    /\ th1 \in Words
    /\ tl1 \in Words
    /\ th2 \in {th1, Uint32(th1 + 1)}
    /\ tl2 \in Words
    /\ t0 = 0
    /\ TimerIdle
    /\ NfIdle
    /\ SiIdle
    /\ PipeIdle
    /\ SetupIdle

CallReduce ==
    /\ pc = "reduce"
    /\ t0' = ReduceObservation(scale, th1, tl1, th2, tl2)
    /\ pc' = "reduced"
    /\ UNCHANGED <<scale, th1, tl1, th2, tl2, outsideReduce>>

NextReduce == CallReduce

SpecReduce == InitReduce /\ [][NextReduce]_vars

-----------------------------------------------------------------------------
(* SpecTimer: MicroTime reading a live counter.  The four register reads   *)
(* of MicroTime are separate steps; the counter ticks between them.        *)

TimerHigh(v, s) == Uint32(v \div s)
TimerLow(v, s) == v % s

InitTimer ==
    /\ pc = "th1"
    /\ scale \in {Pow2(WordBits), FastCycle}
    /\ th1 = 0 /\ tl1 = 0 /\ th2 = 0 /\ tl2 = 0
    /\ t0 = 0
    /\ TimerIdle
    /\ NfIdle
    /\ SiIdle
    /\ PipeIdle
    /\ SetupIdle

\* The counter advances by one; the high word increments exactly when the
\* low word wraps.
Tick ==
    /\ timer < MaxTimer
    /\ pc # "th1" => burst < MaxBurst
    /\ timer' = timer + 1
    /\ burst' = IF pc # "th1" THEN burst + 1 ELSE burst
    /\ UNCHANGED <<pc, reduceVars, prevT0, atTl1, calls, outsideTimer>>

ReadTH1 ==
    /\ pc = "th1"
    /\ th1' = TimerHigh(timer, scale)
    /\ burst' = 0
    /\ pc' = "tl1"
    /\ UNCHANGED <<scale, tl1, th2, tl2, t0, timer, prevT0, atTl1, calls,
                   outsideTimer>>

ReadTL1 ==
    /\ pc = "tl1"
    /\ tl1' = TimerLow(timer, scale)
    /\ atTl1' = timer
    /\ pc' = "th2"
    /\ UNCHANGED <<scale, th1, th2, tl2, t0, timer, prevT0, burst, calls,
                   outsideTimer>>

ReadTH2 ==
    /\ pc = "th2"
    /\ th2' = TimerHigh(timer, scale)
    /\ pc' = "tl2"
    /\ UNCHANGED <<scale, th1, tl1, tl2, t0, timer, prevT0, atTl1, burst, calls,
                   outsideTimer>>

\* The last read and the return of the reduced value.
ReadTL2 ==
    /\ pc = "tl2"
    /\ tl2' = TimerLow(timer, scale)
    /\ t0' = ReduceObservation(scale, th1, tl1, th2, TimerLow(timer, scale))
    /\ prevT0' = t0
    /\ calls' = IF calls < 2 THEN calls + 1 ELSE 2
    /\ pc' = "th1"
    /\ UNCHANGED <<scale, th1, tl1, th2, timer, atTl1, burst, outsideTimer>>

NextTimer == Tick \/ ReadTH1 \/ ReadTL1 \/ ReadTH2 \/ ReadTL2

SpecTimer == InitTimer /\ [][NextTimer]_vars

\* C2: for every interleaving of ticks with the four reads in which the high
\* word changes at most once, the reduced value equals the composite counter
\* at the instant lo1 was read.
C2_ValueAtFirstLowRead ==
    (pc = "th1" /\ calls > 0) => t0 = atTl1

\* C3: with scale 2^32 (here 2^WordBits) two successive reductions of live
\* reads of a counter that only counts up satisfy later >= earlier.
C3_Monotonic ==
    (pc = "th1" /\ calls = 2 /\ scale = Pow2(WordBits)) => t0 >= prevT0

-----------------------------------------------------------------------------
(* support.New: the Si5351 divider solver                                  *)
(*                                                                         *)
(* New runs in four steps; the locals that live from one step to the next  *)
(* are siZ and siR.                                                        *)

\* float64 literals of New
MHz(n) == FInt(n * 1000000)
Trillion == BMul(BFromInt(1000000), BFromInt(1000000))
F1e12 == FFromNat(Trillion)
F1eMinus9 == FDiv(FInt(1), FInt(1000000000))
F1eMinus12 == FDiv(FInt(1), F1e12)
\* 1 << 20
MaxDenominator == 2 ^ 20

near(a, b, eps) == FLeq(FAbs(FSub(a, b)), eps)

\* uint32(x) of a uint64 x
ToUint32(x) == BToInt(BMod(x, BPow2(32)))

\* The upper limit of the clock is not tested.
InvalidClockLowOnly(f0) == FLess(f0, MHz(10))

\* f0 < 10e6 || f0 > 27e6
InvalidClock(f0) == FLess(f0, MHz(10)) \/ FLess(MHz(27), f0)

\* The hint is checked before the output frequency is looked at.
ChoosePllHintChecked(pll, f) ==
    IF ~IsZero(pll) /\ (FLess(pll, MHz(600)) \/ FLess(MHz(900), pll))
    THEN [pll |-> pll, ok |-> FALSE]
    ELSE IF FLess(MHz(150), f)
    THEN [pll |-> FMul(FInt(4), f), ok |-> TRUE]
    ELSE IF FLeq(MHz(100), f)
    THEN [pll |-> FMul(FInt(6), f), ok |-> TRUE]
    ELSE IF IsZero(pll)
    THEN [pll |-> IF FLess(f, MHz(5)) THEN MHz(600) ELSE MHz(800),
          ok |-> TRUE]
    ELSE [pll |-> pll, ok |-> TRUE]

\* A hint is taken as it is given.
ChoosePllHintTrusted(pll, f) ==
    IF FLess(MHz(150), f)
    THEN [pll |-> FMul(FInt(4), f), ok |-> TRUE]
    ELSE IF FLeq(MHz(100), f)
    THEN [pll |-> FMul(FInt(6), f), ok |-> TRUE]
    ELSE IF IsZero(pll)
    THEN [pll |-> IF FLess(f, MHz(5)) THEN MHz(600) ELSE MHz(800),
          ok |-> TRUE]
    ELSE [pll |-> pll, ok |-> TRUE]

\* The PLL frequency New works with, and whether a given one is in range.
ChoosePll(pll, f) ==
    IF FLess(MHz(150), f)
    THEN [pll |-> FMul(FInt(4), f), ok |-> TRUE]
    ELSE IF FLeq(MHz(100), f)
    THEN [pll |-> FMul(FInt(6), f), ok |-> TRUE]
    ELSE IF IsZero(pll)
    THEN [pll |-> IF FLess(f, MHz(5)) THEN MHz(600) ELSE MHz(800),
          ok |-> TRUE]
    ELSE IF FLess(pll, MHz(600)) \/ FLess(MHz(900), pll)
    THEN [pll |-> pll, ok |-> FALSE]
    ELSE [pll |-> pll, ok |-> TRUE]

\* float64(a) + float64(b)/float64(c)
Ratio(a, b, c) == FAdd(FInt(a), FDiv(FInt(b), FInt(c)))

\* The ratio is compared with 4096, so that r stops one doubling early.
RECURSIVE OutputDividerHalved(_, _)
OutputDividerHalved(z, r) ==
    IF FLess(FInt(4096), FDiv(z, FInt(r))) /\ r <= 128
    THEN OutputDividerHalved(z, r * 2)
    ELSE r

\* The doubling stops at 128, whatever the ratio.
RECURSIVE OutputDividerCapped(_, _)
OutputDividerCapped(z, r) ==
    IF FLess(FInt(2048), FDiv(z, FInt(r))) /\ r < 128
    THEN OutputDividerCapped(z, r * 2)
    ELSE r

\* for z/float64(r.r) > 2048 && r.r <= 128 { r.r = r.r * 2 }, from r.r = r
RECURSIVE OutputDivider(_, _)
OutputDivider(z, r) ==
    IF FLess(FInt(2048), FDiv(z, FInt(r))) /\ r <= 128
    THEN OutputDivider(z, r * 2)
    ELSE r

\* return Si5351Config{}, errors.New(msg)
Fail(msg) == [cfg |-> Si5351ConfigZero, err |-> msg]

\* New returns res; its locals are gone
ReturnNew(res) ==
    /\ siOut' = res
    /\ pc' = "configured"
    /\ UNCHANGED <<siZ, siR, nfA, nfB, nfMax, nfRet, cfCall, cfTerms>>

\* lines 122-129: the feedback ratio z is checked and goes to NearestFraction
NewFeedbackRatio(f0, pll, f, z) ==
    IF FLess(z, FInt(15))
    THEN ReturnNew(Fail(
             "Si5351Config: can't happen, feedback ratio too small"))
    ELSE IF FLess(FInt(90), z)
    THEN ReturnNew(Fail(
             "Si5351Config: can't happen, feedback ratio too big"))
    ELSE /\ siZ' = z
         /\ siR' = [Si5351ConfigZero EXCEPT !.f0 = f0, !.pll = pll, !.f = f]
         /\ EnterNearestFraction(FTrunc(FMul(z, F1e12)), Trillion,
                                 MaxDenominator, "feedback")
         /\ UNCHANGED siOut

\* lines 109-122: p is the PLL frequency chosen
NewPll(f0, p, f) ==
    IF ~p.ok
    THEN ReturnNew(Fail("si5351Config: pll is out of range"))
    ELSE NewFeedbackRatio(f0, p.pll, f, FDiv(p.pll, f0))

\* lines 101-109: the clock and the output frequency are checked
NewArguments(f0, pll, f) ==
    IF InvalidClock(f0)
    THEN ReturnNew(Fail("Si5351Config: invalid clock frequency"))
    ELSE IF FLess(MHz(200), f)
    THEN ReturnNew(Fail("Si5351Config: output frequency > 200MHz"))
    ELSE NewPll(f0, ChoosePll(pll, f), f)

\* lines 101-129: the arguments are checked, the PLL is chosen and the
\* feedback ratio goes to NearestFraction
NewCheck ==
    /\ pc = "new"
    /\ NewArguments(FInt(siF0), FInt(siPll), FInt(siF))
    /\ UNCHANGED <<siF0, siPll, siF, nfOut, nfPrev, cfRes, outsideSi>>

\* lines 129-139: a0, b0, c0 are taken from the fraction and the output
\* ratio z is computed from them
NewFeedback ==
    /\ pc = "feedback"
    /\ siR' = [siR EXCEPT !.a0 = ToUint32(BDiv(nfOut.c, nfOut.d)),
                          !.b0 = ToUint32(BMod(nfOut.c, nfOut.d)),
                          !.c0 = ToUint32(nfOut.d)]
    /\ siZ' = FDiv(FMul(siR'.f0, Ratio(siR'.a0, siR'.b0, siR'.c0)), siR'.f)
    /\ pc' = "ratio"
    /\ UNCHANGED <<siF0, siPll, siF, siOut, nfVars, outsideSi>>

\* lines 147-150: r.r = rr is checked and the output ratio over it goes to
\* NearestFraction
NewDivider(rr) ==
    IF rr > 128
    THEN ReturnNew(Fail(
             "Si5351Config: output divider ratio too big, f_out too low"))
    ELSE /\ siR' = [siR EXCEPT !.r = rr]
         /\ EnterNearestFraction(FTrunc(FDiv(FMul(siZ, F1e12), FInt(rr))),
                                 Trillion, MaxDenominator, "output")
         /\ UNCHANGED <<siZ, siOut>>

\* lines 140-150: the output ratio is checked, r.r is found and the ratio
\* over r.r goes to NearestFraction
NewRatio ==
    /\ pc = "ratio"
    /\ IF /\ ~near(siZ, FInt(4), F1eMinus9)
          /\ ~near(siZ, FInt(6), F1eMinus9)
          /\ FLess(siZ, FInt(8))
       THEN ReturnNew(Fail(
                "Si5351Config: output multi-synth ratio too small"))
       ELSE NewDivider(OutputDivider(siZ, 1))
    /\ UNCHANGED <<siF0, siPll, siF, nfOut, nfPrev, cfRes, outsideSi>>

\* lines 156-160: r.eps is tested as it stands, r.f becomes the frequency
\* fOut of the dividers found and r.eps the distance of fOut from the target f
NewFrequency(r, f, fOut) ==
    IF FLess(F1eMinus12, FDiv(FAbs(r.eps), f))
    THEN siOut' = Fail("si5351Config: frequency error is out of range")
    ELSE siOut' = [cfg |-> [r EXCEPT !.f = fOut, !.eps = FSub(f, fOut)],
                   err |-> "nil"]

\* line 155
NewDividers(r) ==
    NewFrequency(r, r.f, FDiv(FMul(r.f0, Ratio(r.a0, r.b0, r.c0)),
                              Ratio(r.a1, r.b1, r.c1)))

\* lines 150-160: a1, b1, c1 are taken from the fraction, r.f is computed,
\* r.eps is tested and assigned
NewOutput ==
    /\ pc = "output"
    /\ NewDividers([siR EXCEPT !.a1 = ToUint32(BDiv(nfOut.c, nfOut.d)),
                               !.b1 = ToUint32(BMod(nfOut.c, nfOut.d)),
                               !.c1 = ToUint32(nfOut.d)])
    /\ pc' = "configured"
    /\ UNCHANGED <<siF0, siPll, siF, siZ, siR, nfVars, outsideSi>>

-----------------------------------------------------------------------------
(* SpecSi: New applied to given arguments, all whole numbers of Hz.        *)

\* the lowest frequency Test_range expects New to accept
TestedLimit == 2302

ClockArgs == {9999999, 10000000, 25000000, 27000000, 27000001}
PllArgs == {0, 599999999, 600000000, 900000000, 900000001}
FArgs ==
    {0, 1, 2251, 4999999, 5000000, 7040100, 99999999, 100000000, 144490000,
     150000000, 150000001, 200000000, 200000001}
\* the frequencies up to TestedLimit, tried with the 25 MHz clock and no hint
LowArgs == (TestedLimit - LowSpan) .. TestedLimit

\* a clock of 10 * 2^20 Hz and a hint of 10 * (60 * 2^20 + 1) Hz: the
\* feedback ratio is 60 + 1/2^20
FineArgs == {<<10485760, 629145610, 7040100>>}

SiArgs ==
    (ClockArgs \X PllArgs \X FArgs) \cup ({25000000} \X {0} \X LowArgs)
        \cup FineArgs

InitSi ==
    /\ pc = "new"
    /\ \E x \in SiArgs : siF0 = x[1] /\ siPll = x[2] /\ siF = x[3]
    /\ siZ = FZero
    /\ siR = Si5351ConfigZero
    /\ siOut = [cfg |-> Si5351ConfigZero, err |-> "nil"]
    /\ ReduceIdle
    /\ TimerIdle
    /\ NfIdle
    /\ PipeIdle
    /\ SetupIdle

NextSi ==
    NewCheck \/ NewFeedback \/ NewRatio \/ NewOutput \/ CfCall \/ CfReturn \/ NearestReturn

SpecSi == InitSi /\ [][NextSi]_vars

\* C9: New returns an error and the zero configuration whenever f0 < 10 MHz,
\* f0 > 27 MHz, f > 200 MHz, or f < 100 MHz with a non-zero pll outside
\* 600 MHz .. 900 MHz; and every error comes with the zero configuration.
C9_ErrorsCarryZeroConfig ==
    pc = "configured" =>
        /\ ( \/ siF0 < 10000000
             \/ siF0 > 27000000
             \/ siF > 200000000
             \/ /\ siF < 100000000
                /\ siPll # 0
                /\ (siPll < 600000000 \/ siPll > 900000000) )
           => siOut.err # "nil"
        /\ siOut.err # "nil" => siOut.cfg = Si5351ConfigZero

\* a clock just above 27 MHz is refused
C9_Witness ==
    /\ pc = "configured"
    /\ siF0 = 27000001 /\ siPll = 0 /\ siF = 7040100
    /\ siOut.err = "Si5351Config: invalid clock frequency"
    /\ siOut.cfg = Si5351ConfigZero

\* C10 as stated: with f0 = 25 MHz and no hint, New returns an error for
\* every f below 2302 Hz.
C10_ErrorBelowTestedLimit ==
    (pc = "configured" /\ siF0 = 25000000 /\ siPll = 0 /\ siF < TestedLimit)
        => siOut.err # "nil"

\* C10 amended: with f0 = 25 MHz and no hint, New returns an error for
\* every f below 600 MHz / (2048 * 128), about 2288.82 Hz.
C10_ErrorBelowDividerReach ==
    ( /\ pc = "configured" /\ siF0 = 25000000 /\ siPll = 0
      /\ siF < TestedLimit
      /\ siF * 2048 * 128 < 600000000 )
        => siOut.err # "nil"

\* 2288 Hz is refused for its output divider, after a0, b0, c0 were found
C10_Witness ==
    /\ pc = "configured"
    /\ siF0 = 25000000 /\ siPll = 0 /\ siF = 2288
    /\ siOut.err = "Si5351Config: output divider ratio too big, f_out too low"

\* C11: with f0 = 25 MHz and no hint, New returns a nil error for every f
\* from 2302 Hz up to, but not including, 200 MHz.
C11_SuccessFromTestedLimit ==
    ( /\ pc = "configured" /\ siF0 = 25000000 /\ siPll = 0
      /\ TestedLimit <= siF /\ siF < 200000000 )
        => siOut.err = "nil"

\* C12: a configuration returned without error stores the frequency
\* f0 * (a0 + b0/c0) / ((a1 + b1/c1) * r) in f and the requested frequency
\* less that one in eps, whatever r is.
C12_StoredFrequencyInvariant ==
    (pc = "configured" /\ siOut.err = "nil") =>
        /\ siOut.cfg.f =
               FDiv(FMul(siOut.cfg.f0,
                         Ratio(siOut.cfg.a0, siOut.cfg.b0, siOut.cfg.c0)),
                    FMul(Ratio(siOut.cfg.a1, siOut.cfg.b1, siOut.cfg.c1),
                         FInt(siOut.cfg.r)))
        /\ siOut.cfg.eps = FSub(FInt(siF), siOut.cfg.f)

\* the PLL frequency the claim C20 names for the arguments of the call
C20_Pll ==
    IF siF > 150000000 THEN 4 * siF
    ELSE IF siF >= 100000000 THEN 6 * siF
    ELSE IF siPll = 0
    THEN (IF siF < 5000000 THEN 600000000 ELSE 800000000)
    ELSE siPll

\* C20: once the clock and the output frequency have passed their checks,
\* New either refuses an out-of-range hint (f < 100 MHz only) or works with
\* the PLL frequency 4f, 6f, 600 MHz, 800 MHz or the hint, as the claim
\* lists them, and that frequency lies in 600 MHz .. 900 MHz.
C20_PllChoice ==
    ( /\ pc # "new"
      /\ 10000000 <= siF0 /\ siF0 <= 27000000
      /\ siF <= 200000000 )
        => IF /\ siF < 100000000
              /\ siPll # 0
              /\ (siPll < 600000000 \/ siPll > 900000000)
           THEN siOut.err = "si5351Config: pll is out of range"
           ELSE /\ siR.pll = FInt(C20_Pll)
                /\ 600000000 <= C20_Pll /\ C20_Pll <= 900000000

\* 144.49 MHz with a hint below the range: the hint is ignored for 6f
C20_Witness ==
    /\ pc = "configured"
    /\ siF0 = 25000000 /\ siPll = 599999999 /\ siF = 144490000
    /\ siR.pll = FInt(866940000)
    /\ siOut.err = "nil"

-----------------------------------------------------------------------------
(* The sampling pipeline of package pico: the chained PWM counters, the    *)
(* DMA gather started by a PPS edge, the PPS interrupt handler, and the    *)
(* consumer loop of main.  The hardware (counters, DMA) runs beside the    *)
(* processor; the handler preempts main and runs to its end.               *)

\* the values of ErrorFlag
InterruptOK == 0
InterruptRunning == 1
FirstSendFailed == 2
SecondSendFailed == 3
NoDMAData == 4
DmaBusy == 5

\* 0xffffffff, the word no counter delivers, written as the same 32 bits
\* read as a signed number
AllOnes == -1


\* this causes an end of the transfer
NullBlock == [from |-> "0", to |-> "0"]

\* The list with the fast counter gathered before the slow one.
transfersFastFirst ==
    << [from |-> "TIMERAWH", to |-> "th1"],
       [from |-> "TIMERAWL", to |-> "tl1"],
       [from |-> "TIMERAWH", to |-> "th2"],
       [from |-> "TIMERAWL", to |-> "tl2"],
       [from |-> "PWM0.CTR", to |-> "a1"],
       [from |-> "PWM1.CTR", to |-> "b1"],
       [from |-> "PWM0.CTR", to |-> "a2"],
       [from |-> "PWM1.CTR", to |-> "b2"],
       NullBlock >>

\* the control blocks of the gather
transfers ==
    << [from |-> "TIMERAWH", to |-> "th1"],
       [from |-> "TIMERAWL", to |-> "tl1"],
       [from |-> "TIMERAWH", to |-> "th2"],
       [from |-> "TIMERAWL", to |-> "tl2"],
       [from |-> "PWM1.CTR", to |-> "b1"],
       [from |-> "PWM0.CTR", to |-> "a1"],
       [from |-> "PWM1.CTR", to |-> "b2"],
       [from |-> "PWM0.CTR", to |-> "a2"],
       NullBlock >>

\* the word a 32 bit read of a register delivers
Register(a) ==
    CASE a = "TIMERAWH" -> TimerHigh(timer, Pow2(WordBits))
      [] a = "TIMERAWL" -> TimerLow(timer, Pow2(WordBits))
      [] a = "PWM1.CTR" -> pwm1
      [] a = "PWM0.CTR" -> pwm0

\* d1's read address once it has left the list; every address behind the
\* list is this one
PastEnd == Len(transfers) + 1

\* Memory behind the list is not the program's: a control block read there
\* is the null block, or moves any register to a word of the buffer or to
\* some other place.
AnyBlock ==
    {NullBlock} \cup
    [from : {"TIMERAWH", "TIMERAWL", "PWM1.CTR", "PWM0.CTR"},
     to : DOMAIN ResultZero \cup {"elsewhere"}]

\* what d1 can read at its read address: a block of the list, any block in
\* the first MaxBehind places behind it, and zeros from there on
ControlBlocks(at) ==
    IF at < PastEnd THEN {transfers[at]}
    ELSE IF at < PastEnd + MaxBehind THEN AnyBlock
    ELSE {NullBlock}

\* One cycle of the input signal: the fast counter counts from 0 to its TOP
\* and wraps, and each wrap of the fast counter clocks the slow counter,
\* which counts from 0 to its TOP.
PwmCount ==
    /\ counted < MaxCounted
    /\ counted' = counted + 1
    /\ pwm0' = IF pwm0 = FastCycle THEN 0 ELSE pwm0 + 1
    /\ pwm1' = IF pwm0 # FastCycle THEN pwm1
               ELSE IF pwm1 = SlowCycle THEN 0 ELSE pwm1 + 1
    /\ UNCHANGED <<pc, timer, dmaVars, isrVars, samples, ErrorFlag, dropped, mainVars,
                   edges, outsidePipe>>

\* A rising edge of the PPS pin.  The PIO program pushes its word, d0 moves
\* it to the transfer count trigger of d1, which starts the gather at d1's
\* read address; and the pin interrupt enters the handler.  The edges are a
\* second apart: the gather and the handler of the edge before have ended.
Edge ==
    /\ edges < MaxEdges
    /\ dma = "idle"
    /\ isr = "idle"
    /\ edges' = edges + 1
    /\ timer' = timer + 1
    /\ dma' = "running"
    /\ gatherLog' = << >>
    /\ isr' = "poll"
    /\ isrI' = 0
    /\ UNCHANGED <<pc, pwmVars, result, d1Read, wrote, isrS, samples,
                   ErrorFlag, dropped, mainVars, outsidePipe>>

\* d2 moves one word from cb.from to cb.to
Transfer(cb) ==
    /\ result' = IF cb.to \in DOMAIN result
                 THEN [result EXCEPT ![cb.to] = Register(cb.from)]
                 ELSE result
    /\ wrote' = IF cb.to \in DOMAIN result
                THEN [wrote EXCEPT ![cb.to] = edges,
                                   !.at = IF cb.to = "a1" THEN counted ELSE @]
                ELSE wrote
    /\ gatherLog' = IF d1Read < PastEnd
                    THEN Append(gatherLog, cb)
                    ELSE gatherLog

\* One step of the gather: d1 moves the control block at its read address
\* to d2 and advances; the write of d2's write address starts d2, which
\* moves the word and chains back to d1, unless the address written is
\* zero, which starts nothing.
GatherStep ==
    /\ dma = "running"
    /\ d1Read' = IF d1Read < PastEnd + MaxBehind THEN d1Read + 1 ELSE d1Read
    /\ \E cb \in ControlBlocks(d1Read) :
           IF cb = NullBlock
           THEN /\ dma' = "idle"
                /\ UNCHANGED <<result, wrote, gatherLog>>
           ELSE /\ dma' = "running"
                /\ Transfer(cb)
    /\ UNCHANGED <<pc, timer, pwmVars, isrVars, samples, ErrorFlag, dropped, mainVars,
                   edges, outsidePipe>>

\* the words of the buffer in the order Collect reads them, each with the
\* field of Sample it goes to
CollectOrder == <<"th1", "tl1", "th2", "tl2", "b1", "a1", "b2", "a2">>
SampleField ==
    [th1 |-> "TH1", tl1 |-> "TL1", th2 |-> "TH2", tl2 |-> "TL2",
     b1 |-> "B1", a1 |-> "A1", b2 |-> "B2", a2 |-> "A2"]

\* One round of the handler's wait for the gather:
\* for i := 0; i < 1000; i++ { if b1 != 0 || b2 != 100 { break } }
IsrPoll ==
    /\ isr = "poll"
    /\ IF isrI < MaxPoll /\ result.b1 = 0 /\ result.b2 = 100
       THEN isrI' = isrI + 1 /\ isr' = "poll"
       ELSE isrI' = isrI /\ isr' = CollectOrder[1]
    /\ UNCHANGED <<pc, timer, pwmVars, dmaVars, isrS, samples, ErrorFlag, dropped,
                   mainVars, edges, outsidePipe>>

\* Collect reads one word of the buffer into its field of the Sample r
CollectWord(k, r) ==
    /\ isr = CollectOrder[k]
    /\ isrS' = [r EXCEPT ![SampleField[CollectOrder[k]]] =
                             result[CollectOrder[k]],
                         !.from[CollectOrder[k]] = wrote[CollectOrder[k]],
                         !.from.at = IF CollectOrder[k] = "a1"
                                     THEN wrote.at ELSE @]
    /\ isr' = IF k < Len(CollectOrder) THEN CollectOrder[k + 1] ELSE "taint b1"

\* DmaSampler.Collect, the eight reads of r := Sample{...}, one at a time
Collect ==
    /\ \E k \in 1 .. Len(CollectOrder) :
           CollectWord(k, IF k = 1 THEN SampleZero ELSE isrS)
    /\ UNCHANGED <<pc, timer, pwmVars, dmaVars, isrI, samples, ErrorFlag, dropped,
                   mainVars, edges, outsidePipe>>

\* Collect leaves b1 as it read it.
TaintB1Skipped ==
    /\ isr = "taint b1"
    /\ isr' = "taint b2"
    /\ UNCHANGED <<pc, timer, pwmVars, dmaVars, isrI, isrS, samples,
                   ErrorFlag, dropped, mainVars, edges, outsidePipe>>

\* DmaSampler.Collect: result.b1.Set(0)
TaintB1 ==
    /\ isr = "taint b1"
    /\ result' = [result EXCEPT !.b1 = 0]
    /\ wrote' = [wrote EXCEPT !.b1 = -1]
    /\ isr' = "taint b2"
    /\ UNCHANGED <<pc, timer, pwmVars, d1Read, dma, gatherLog, isrI, isrS,
                   samples, ErrorFlag, dropped, mainVars, edges, outsidePipe>>

\* DmaSampler.Collect: result.b2.Set(100), and the return
TaintB2 ==
    /\ isr = "taint b2"
    /\ result' = [result EXCEPT !.b2 = 100]
    /\ wrote' = [wrote EXCEPT !.b2 = -1]
    /\ isr' = "send"
    /\ UNCHANGED <<pc, timer, pwmVars, d1Read, dma, gatherLog, isrI, isrS,
                   samples, ErrorFlag, dropped, mainVars, edges, outsidePipe>>

\* collectSample after its Collect has returned r
collectSample(r) ==
    [r EXCEPT !.Count = ReduceObservation(FastCycle, r.B1, r.A1, r.B2, r.A2),
              !.T = ReduceObservation(Pow2(WordBits),
                                      r.TH1, r.TL1, r.TH2, r.TL2)]

\* if s.B1 != 0xffffffff { InterruptOK } else { NoDMAData }
SentFlag(s) == IF s.B1 # AllOnes THEN InterruptOK ELSE NoDMAData

\* The channel takes a third Sample.
ChannelFullAtThree(ch) == Len(ch) >= 3

\* a send to samples, made with capacity 2, would block
ChannelFull(ch) == Len(ch) >= 2

\* The rest of the handler: the Sample is reduced and sent unless the
\* channel is full, in which case the handler returns at once; after a
\* send the flag is set and d1's read address is put back to the first
\* control block.
IsrSend ==
    /\ isr = "send"
    /\ isrS' = collectSample(isrS)
    /\ IF ChannelFull(samples)
       THEN /\ ErrorFlag' = SecondSendFailed
            /\ dropped' = TRUE
            /\ UNCHANGED <<samples, d1Read>>
       ELSE /\ samples' = Append(samples, isrS')
            /\ ErrorFlag' = SentFlag(isrS')
            /\ d1Read' = 1
            /\ UNCHANGED dropped
    /\ isr' = "idle"
    /\ UNCHANGED <<pc, timer, pwmVars, result, dma, gatherLog, wrote, isrI,
                   mainVars, edges, outsidePipe>>

\* The message is printed from the first missed window on.
TimeoutLoggedAtOnce(missed) == missed > 0

\* if missedSamples > 1 { fmt.Printf("timeout ...") }
TimeoutLogged(missed) == missed > 1

\* The loop of main goes on after one event more than it should.
LoopGoesOnOneMore(i) == i <= MaxEvents

\* for i := 0; i < 100; i++: the condition of main's loop
LoopGoesOn(i) == i < MaxEvents

\* main, case <-timeout.C: a ticker event is serviced
MainTimeout ==
    /\ pc = "select"
    /\ isr = "idle"
    /\ LoopGoesOn(mainI)
    /\ logged' = [event |-> "timeout",
                  said |-> TimeoutLogged(missedSamples),
                  misses |-> logged.misses + 1,
                  error |-> 0]
    /\ missedSamples' = missedSamples + 1
    /\ mainI' = mainI + 1
    /\ UNCHANGED <<pc, timer, pwmVars, dmaVars, isrVars, samples, ErrorFlag, dropped,
                   k0, mainS, lastDelta, edges, outsidePipe>>

\* main, case s := <-*samples: a Sample is taken from the channel
MainReceive ==
    /\ pc = "select"
    /\ isr = "idle"
    /\ LoopGoesOn(mainI)
    /\ samples # << >>
    /\ mainS' = Head(samples)
    /\ samples' = Tail(samples)
    /\ pc' = "received"
    /\ UNCHANGED <<timer, pwmVars, dmaVars, isrVars, ErrorFlag, dropped, mainI,
                   missedSamples, k0, logged, lastDelta, edges, outsidePipe>>

\* offset := uint64(0); if s.Count < k0 { offset = 50_000 * 50_000 }
Offset(s, k) == IF s.Count < k THEN FastCycle * FastCycle ELSE 0

\* s.Count - k0 + offset
Delta(s, k) == Uint64(s.Count - k + Offset(s, k))

\* The words of the Sample s that make its Count were gathered on one edge
\* and the fast counter did not wrap while they were: Count is then the
\* reduced reading of the counters at the moment a1 was gathered.
Whole(s) ==
    /\ s.from.b1 > 0
    /\ s.from.a1 = s.from.b1 /\ s.from.b2 = s.from.b1 /\ s.from.a2 = s.from.b1
    /\ s.B1 = s.B2

\* main, the rest of the case: ErrorFlag is read and printed when it is not
\* 0, the delta is printed, and k0 and missedSamples are set
MainReport ==
    /\ pc = "received"
    /\ isr = "idle"
    /\ logged' = [event |-> "sample", said |-> FALSE, misses |-> 0,
                  error |-> ErrorFlag]
    /\ lastDelta' = [delta |-> Delta(mainS, k0),
                     n |-> mainS.from.at - lastDelta.at,
                     at |-> mainS.from.at,
                     whole |-> Whole(mainS),
                     both |-> lastDelta.whole /\ Whole(mainS)]
    /\ k0' = mainS.Count
    /\ missedSamples' = 0
    /\ mainI' = mainI + 1
    /\ dropped' = FALSE
    /\ pc' = "select"
    /\ UNCHANGED <<timer, pwmVars, dmaVars, isrVars, samples, ErrorFlag,
                   mainS, edges, outsidePipe>>

\* main after its loop: machine.EnterBootloader()
MainLeave ==
    /\ pc = "select"
    /\ isr = "idle"
    /\ ~LoopGoesOn(mainI)
    /\ pc' = "bootloader"
    /\ UNCHANGED <<timer, pipeVars, outsidePipe>>

\* The first edge comes when the signal has been counted for a while: the
\* counters are near zero, or near the wrap of the fast or of both counters.
CountedAtStart ==
    {0, FastCycle, (FastCycle + 1) * (SlowCycle + 1) - 1}

InitPipeline ==
    /\ pc = "select"
    /\ timer = 0
    /\ ReduceIdle
    /\ prevT0 = 0 /\ atTl1 = 0 /\ burst = 0 /\ calls = 0
    /\ NfIdle
    /\ SiIdle
    /\ \E c \in CountedAtStart : CountersAt(c)
    /\ HandlerIdle
    /\ SetupIdle

\* The gather is over, or it did not start on the list.  A gather of the
\* list takes a fraction of a microsecond from the edge; the handler is
\* entered by the interrupt of the same edge, microseconds after it.
GatherOver == dma = "idle" \/ (d1Read >= PastEnd /\ gatherLog = << >>)

\* The pipeline with the gather in time: the handler looks at the buffer
\* when the gather of its edge is over.
NextPipeline ==
    \/ PwmCount
    \/ edges < CountedEdges /\ Edge
    \/ GatherStep
    \/ GatherOver /\ IsrPoll
    \/ GatherOver /\ Collect
    \/ GatherOver /\ TaintB1
    \/ GatherOver /\ TaintB2
    \/ GatherOver /\ IsrSend
    \/ MainTimeout
    \/ MainReceive
    \/ MainReport
    \/ MainLeave

SpecPipeline == InitPipeline /\ [][NextPipeline]_vars

\* The handler and a late gather: nothing orders the steps of the gather and
\* the reads and writes of the handler, which are on different bus masters.
\* The counters stand and main does not run; the gather has ended when the
\* handler sends.
\* where the counters stand: at zero, or with the slow counter at one
StandAt == {0, FastCycle + 1}

InitRace ==
    /\ pc = "select"
    /\ timer = 0
    /\ ReduceIdle
    /\ prevT0 = 0 /\ atTl1 = 0 /\ burst = 0 /\ calls = 0
    /\ NfIdle
    /\ SiIdle
    /\ \E c \in StandAt : CountersAt(c)
    /\ HandlerIdle
    /\ SetupIdle

NextRace ==
    \/ edges < RaceEdges /\ Edge
    \/ GatherStep
    \/ IsrPoll
    \/ Collect
    \/ TaintB1
    \/ TaintB2
    \/ dma = "idle" /\ IsrSend

SpecRace == InitRace /\ [][NextRace]_vars

\* The handler and main over more edges: the gather is in time, main is
\* preempted by the handler wherever an edge comes, and the counters stand.
NextFault ==
    \/ Edge
    \/ GatherStep
    \/ GatherOver /\ IsrPoll
    \/ GatherOver /\ Collect
    \/ GatherOver /\ TaintB1
    \/ GatherOver /\ TaintB2
    \/ GatherOver /\ IsrSend
    \/ MainTimeout
    \/ MainReceive
    \/ MainReport
    \/ MainLeave

SpecFault == InitRace /\ [][NextFault]_vars

-----------------------------------------------------------------------------
(* Claims about the pipeline                                               *)

\* the sources and the targets of the gather, in the order of the list
C13_Sources ==
    <<"TIMERAWH", "TIMERAWL", "TIMERAWH", "TIMERAWL",
      "PWM1.CTR", "PWM0.CTR", "PWM1.CTR", "PWM0.CTR">>
C13_Targets == <<"th1", "tl1", "th2", "tl2", "b1", "a1", "b2", "a2">>

\* C13: the list is nine blocks, the eight register reads in the order th1,
\* tl1, th2, tl2, b1, a1, b2, a2 and then the null block; a gather that
\* walks the list from its first block moves the words in that order, each
\* word once, and stops at the null block with all eight words written.
C13_GatherWalksList ==
    /\ Len(transfers) = Len(C13_Targets) + 1
    /\ \A k \in 1 .. Len(C13_Targets) :
           transfers[k] = [from |-> C13_Sources[k], to |-> C13_Targets[k]]
    /\ transfers[Len(transfers)] = [from |-> "0", to |-> "0"]
    /\ Len(gatherLog) <= Len(C13_Targets)
    /\ \A k \in 1 .. Len(gatherLog) :
           gatherLog[k] = [from |-> C13_Sources[k], to |-> C13_Targets[k]]
    /\ (dma = "running" /\ d1Read < PastEnd) => Len(gatherLog) = d1Read - 1
    /\ (dma = "idle" /\ gatherLog # << >>) =>
           /\ Len(gatherLog) = Len(C13_Targets)
           /\ d1Read = PastEnd \/ d1Read = 1
           /\ isr = "poll" => \A w \in DOMAIN result : wrote[w] = edges

\* the gather of the second edge has stopped at the null block and the
\* handler has not touched the buffer yet
C13_Witness ==
    /\ edges = 2
    /\ dma = "idle"
    /\ d1Read = PastEnd
    /\ Len(gatherLog) = 8
    /\ isr = "poll"
    /\ \A w \in DOMAIN result : wrote[w] = 2

\* C14: the handler's send never blocks and the channel never holds more
\* than two Samples; a handler that comes to its send with two Samples in
\* the channel drops its Sample, leaves the channel as it is and sets
\* ErrorFlag to SecondSendFailed, and a handler that finds room sends.
C14_FullQueueDrops ==
    /\ [](isr = "send" => ENABLED IsrSend)
    /\ [][ /\ Len(samples') <= 2
           /\ (isr = "send" /\ isr' = "idle" /\ Len(samples) = 2) =>
                  /\ samples' = samples
                  /\ ErrorFlag' = SecondSendFailed
           /\ (isr = "send" /\ isr' = "idle" /\ Len(samples) < 2) =>
                  /\ samples' = Append(samples, collectSample(isrS))
                  /\ ErrorFlag' # SecondSendFailed ]_vars

\* the handler of the third edge has returned with two Samples waiting
C14_Witness ==
    /\ edges = 3
    /\ isr = "idle"
    /\ Len(samples) = 2
    /\ ErrorFlag = SecondSendFailed

\* C15: whenever the handler has returned, also when it dropped its Sample
\* or found no fresh data, the read address of d1 is back at the first
\* control block.
C15_ReadAddressReset ==
    (edges > 0 /\ isr = "idle") => d1Read = 1

\* C16: a handler whose wait ran out and whose Collect read b1 and b2 as
\* the taint left them, and which sent its Sample, leaves ErrorFlag at
\* NoDMAData.
C16_StaleBufferFlagged ==
    ( /\ isr = "idle"
      /\ isrI = MaxPoll
      /\ isrS.from.b1 = -1 /\ isrS.B1 = 0
      /\ isrS.from.b2 = -1 /\ isrS.B2 = 100
      /\ ErrorFlag # SecondSendFailed ) => ErrorFlag = NoDMAData

\* the values Collect taints the buffer with
C17_Taint == [b1 |-> 0, b2 |-> 100]

\* C17: when Collect returns, b1 and b2 hold the taint, 0 and 100, unless a
\* gather has written them since Collect tainted them, and neither holds
\* the word Collect has just returned; a Collect that found both words as
\* the Collect before it left them returns B1 = 0 and B2 = 100 and leaves
\* them so; and no word a gather wrote to b1 or b2 is returned by two
\* Collects, so that no pair (B1, B2) of gathered words is returned twice.
C17_TaintIdempotent ==
    /\ isr = "send" =>
           \A w \in DOMAIN C17_Taint :
               /\ wrote[w] # 0
               /\ wrote[w] = -1 => result[w] = C17_Taint[w]
               /\ wrote[w] > 0 => wrote[w] # isrS.from[w]
    /\ (isr = "send" /\ isrS.from.b1 = -1 /\ isrS.from.b2 = -1) =>
           /\ isrS.B1 = 0 /\ isrS.B2 = 100
           /\ (wrote.b1 = -1 /\ wrote.b2 = -1) =>
                  (result.b1 = 0 /\ result.b2 = 100)
    /\ \A i, j \in 1 .. Len(samples) :
           i < j =>
               /\ \A w \in DOMAIN C17_Taint :
                      samples[i].from[w] > 0 =>
                          samples[j].from[w] # samples[i].from[w]
               /\ (samples[i].from.b1 > 0 /\ samples[i].from.b2 > 0) =>
                      <<samples[j].from.b1, samples[j].from.b2>> #
                          <<samples[i].from.b1, samples[i].from.b2>>

\* the Collect of the second edge has returned the taint the Collect of the
\* first edge left, no gather having written b1 or b2 in between
C17_Witness ==
    /\ edges = 2
    /\ isr = "send"
    /\ Len(samples) = 1
    /\ samples[1].from.b1 = 1 /\ samples[1].from.b2 = 1
    /\ isrS.from.b1 = -1 /\ isrS.from.b2 = -1
    /\ isrS.B1 = 0 /\ isrS.B2 = 100
    /\ wrote.b1 = -1 /\ wrote.b2 = -1
    /\ result.b1 = 0 /\ result.b2 = 100

\* C18: main prints the timeout message on a ticker event only if more than
\* one ticker event came before it since the last Sample (or the start), so
\* never on the first or the second of a row; and a Sample puts the count
\* of missed windows back to 0.
C18_TimeoutAfterTwoMisses ==
    /\ logged.event = "timeout" =>
           /\ logged.said <=> logged.misses - 1 > 1
           /\ missedSamples = logged.misses
    /\ logged.event = "sample" => (missedSamples = 0 /\ ~logged.said)

\* the third ticker event in a row has been serviced and the message printed
C18_Witness ==
    /\ logged.event = "timeout"
    /\ logged.misses = 3
    /\ logged.said
    /\ missedSamples = 3

\* C19: when main has printed the delta of a Sample and of the Sample
\* before it, both made of the words of one gather each with no rollover
\* in them, and n cycles were counted between the two gathers, fewer than
\* the counter pair takes to wrap, the delta printed is n.
C19_DeltaIsCount ==
    ( /\ lastDelta.both
      /\ 0 <= lastDelta.n
      /\ lastDelta.n < (FastCycle + 1) * (SlowCycle + 1) ) =>
        lastDelta.delta = lastDelta.n

-----------------------------------------------------------------------------
(* Further claims about New                                                *)

\* the two errors of the feedback ratio
C21_Errors ==
    {"Si5351Config: can't happen, feedback ratio too small",
     "Si5351Config: can't happen, feedback ratio too big"}

\* C21: New never returns one of the two feedback ratio errors: once the
\* clock, the output frequency and the hint have passed their checks, the
\* feedback ratio pll/f0 New works with is at least 15 and at most 90.
C21_FeedbackRatioInWindow ==
    /\ siOut.err \notin C21_Errors
    /\ ( /\ pc # "new"
         /\ 10000000 <= siF0 /\ siF0 <= 27000000
         /\ siF <= 200000000
         /\ siOut.err # "si5351Config: pll is out of range" ) =>
           /\ siR.f0 = FInt(siF0)
           /\ FLeq(FInt(15), FDiv(siR.pll, siR.f0))
           /\ FLeq(FDiv(siR.pll, siR.f0), FInt(90))

\* the largest ratio: a hint of 900 MHz with a clock of 10 MHz has passed
C21_Witness ==
    /\ pc # "new"
    /\ siF0 = 10000000 /\ siPll = 900000000 /\ siF = 7040100
    /\ siR.pll = FInt(900000000)
    /\ FDiv(siR.pll, siR.f0) = FInt(90)
    /\ siOut.err = "nil"

\* the errors New returns before it looks for the output divider
C22_EarlierErrors ==
    {"Si5351Config: invalid clock frequency",
     "Si5351Config: output frequency > 200MHz",
     "si5351Config: pll is out of range",
     "Si5351Config: can't happen, feedback ratio too small",
     "Si5351Config: can't happen, feedback ratio too big",
     "Si5351Config: output multi-synth ratio too small"}

\* the values of r.r
C22_Dividers == {1, 2, 4, 8, 16, 32, 64, 128}

\* C22: with z the output ratio New computed, when the earlier checks have
\* passed New returns the error of the output divider exactly when
\* z/128 > 2048; and when New succeeds r is the smallest of 1, 2, 4, ..., 128
\* with z/r <= 2048.
C22_SmallestDivider ==
    (pc = "configured" /\ siOut.err \notin C22_EarlierErrors) =>
        /\ siOut.err =
               "Si5351Config: output divider ratio too big, f_out too low"
             <=> FLess(FInt(2048), FDiv(siZ, FInt(128)))
        /\ siOut.err = "nil" =>
               /\ siOut.cfg.r \in C22_Dividers
               /\ FLeq(FDiv(siZ, FInt(siOut.cfg.r)), FInt(2048))
               /\ \A q \in C22_Dividers :
                      q < siOut.cfg.r => FLess(FInt(2048), FDiv(siZ, FInt(q)))

\* New has succeeded for the lowest tested frequency with the largest divider
C22_Witness ==
    /\ pc = "configured"
    /\ siF0 = 25000000 /\ siPll = 0 /\ siF = TestedLimit
    /\ siOut.err = "nil"
    /\ siOut.cfg.r = 128
    /\ FLess(FInt(2048), FDiv(siZ, FInt(64)))

\* the frequency the dividers of the configuration c produce
C23_Achieved(c) ==
    FDiv(FMul(c.f0, Ratio(c.a0, c.b0, c.c0)),
         FMul(Ratio(c.a1, c.b1, c.c1), FInt(c.r)))

\* C23: no configuration New returns without an error is further from the
\* frequency asked for than 1e-12 of it: with a larger relative error New
\* returns the error of the frequency error.
C23_RelativeErrorChecked ==
    (pc = "configured" /\ siOut.err = "nil") =>
        FLeq(FDiv(FAbs(FSub(FInt(siF), C23_Achieved(siOut.cfg))), FInt(siF)),
             F1eMinus12)

\* C24: in every configuration New returns without an error the two
\* denominators fit the field of 20 bits, 1 <= c0, c1 <= 2^20 - 1, and the
\* numerators are below them, b0 < c0 and b1 < c1.
C24_DenominatorsFitField ==
    (pc = "configured" /\ siOut.err = "nil") =>
        /\ 1 <= siOut.cfg.c0 /\ siOut.cfg.c0 <= Pow2(20) - 1
        /\ 1 <= siOut.cfg.c1 /\ siOut.cfg.c1 <= Pow2(20) - 1
        /\ siOut.cfg.b0 < siOut.cfg.c0
        /\ siOut.cfg.b1 < siOut.cfg.c1

-----------------------------------------------------------------------------
(* Further claims about the pipeline                                       *)

\* C25: every Sample in the channel, each of them sent with ErrorFlag set to
\* InterruptOK, is made of eight words that one gather wrote: no word of it
\* is a taint value, a word of another gather or a word no gather wrote.
C25_SampleOfOneGather ==
    \A i \in 1 .. Len(samples) :
        /\ samples[i].from.th1 > 0
        /\ \A w \in DOMAIN result :
               samples[i].from[w] = samples[i].from.th1

\* C26: when main reads ErrorFlag for a Sample it received, and the handler
\* dropped a Sample since main's read before, the value main reads is not
\* InterruptOK.
C26_FaultReachesMain ==
    [][ (pc = "received" /\ pc' = "select" /\ dropped)
            => logged'.error # InterruptOK ]_vars

\* main has read ErrorFlag after a drop
C26_Witness ==
    /\ pc = "select"
    /\ logged.event = "sample"
    /\ logged.error = SecondSendFailed

-----------------------------------------------------------------------------
(* wspr.dmaArbiter                                                         *)

\* A word is modelled by the set of the positions of its one bits: | is the
\* union, & the intersection, &^ the difference.
\* for i := uint8(0); i < 12; i++
NumChannels == 12

\* 1 << idx
Shl1(idx) == {idx}

\* ch.arb.claimedChannels&(1<<ch.idx) != 0
IsClaimed(mask, idx) == mask \cap Shl1(idx) # {}

\* TryClaim without the test of IsClaimed
TryClaimAgain(mask, idx) == [ok |-> TRUE, mask |-> mask \cup Shl1(idx)]

\* DmaChannel.TryClaim: what it returns and the mask it leaves
TryClaim(mask, idx) ==
    IF IsClaimed(mask, idx)
    THEN [ok |-> FALSE, mask |-> mask]
    ELSE [ok |-> TRUE, mask |-> mask \cup Shl1(idx)]

\* DmaChannel.Unclaim: the mask it leaves
Unclaim(mask, idx) == mask \ Shl1(idx)

\* dmaArbiter.claimChannel from its iteration i on; DmaChannel{} has idx 0
RECURSIVE claimChannel(_, _)
claimChannel(mask, i) ==
    IF i < NumChannels
    THEN LET t == TryClaim(mask, i)
         IN  IF t.ok
             THEN [idx |-> i, ok |-> TRUE, mask |-> t.mask]
             ELSE claimChannel(mask, i + 1)
    ELSE [idx |-> 0, ok |-> FALSE, mask |-> mask]

\* ClaimChannel()
CallClaimChannel ==
    LET r == claimChannel(claimedChannels, 0)
    IN  /\ claimedChannels' = r.mask
        /\ arbOut' = [op |-> "ClaimChannel", idx |-> r.idx, ok |-> r.ok,
                      before |-> claimedChannels]
        /\ UNCHANGED <<pioVars, enVars, outsideSetup>>

\* _DMA.Channel(idx).TryClaim(); Channel panics when idx > 11
CallTryClaim ==
    \E idx \in 0 .. NumChannels - 1 :
        LET t == TryClaim(claimedChannels, idx)
        IN  /\ claimedChannels' = t.mask
            /\ arbOut' = [op |-> "TryClaim", idx |-> idx, ok |-> t.ok,
                          before |-> claimedChannels]
            /\ UNCHANGED <<pioVars, enVars, outsideSetup>>

\* _DMA.Channel(idx).Unclaim()
CallUnclaim ==
    \E idx \in 0 .. NumChannels - 1 :
        /\ claimedChannels' = Unclaim(claimedChannels, idx)
        /\ arbOut' = [op |-> "Unclaim", idx |-> idx, ok |-> TRUE,
                      before |-> claimedChannels]
        /\ UNCHANGED <<pioVars, enVars, outsideSetup>>

InitArbiter ==
    /\ pc = "setup"
    /\ timer = 0
    /\ ReduceIdle
    /\ prevT0 = 0 /\ atTl1 = 0 /\ burst = 0 /\ calls = 0
    /\ NfIdle
    /\ SiIdle
    /\ PipeIdle
    /\ SetupIdle

NextArbiter == CallClaimChannel \/ CallTryClaim \/ CallUnclaim

SpecArbiter == InitArbiter /\ [][NextArbiter]_vars

\* the channels of the arbiter
C27_Channels == 0 .. NumChannels - 1

\* C27: after any sequence of calls, a ClaimChannel that found a free
\* channel returned the lowest channel that was not claimed, which is now
\* claimed and the only bit changed; it failed, leaving the mask as it was,
\* exactly when all 12 channels were claimed; a TryClaim of a claimed
\* channel returned false and left the mask; an Unclaim cleared its bit only.
C27_ArbiterClaims ==
    /\ claimedChannels \subseteq C27_Channels
    /\ arbOut.op = "ClaimChannel" =>
          /\ arbOut.ok <=> arbOut.before # C27_Channels
          /\ arbOut.ok =>
                /\ arbOut.idx \in C27_Channels \ arbOut.before
                /\ \A i \in C27_Channels \ arbOut.before : arbOut.idx <= i
                /\ claimedChannels = arbOut.before \cup {arbOut.idx}
          /\ ~arbOut.ok => claimedChannels = arbOut.before
    /\ arbOut.op = "TryClaim" =>
          /\ arbOut.ok <=> arbOut.idx \notin arbOut.before
          /\ arbOut.ok => claimedChannels = arbOut.before \cup {arbOut.idx}
          /\ ~arbOut.ok => claimedChannels = arbOut.before
    /\ arbOut.op = "Unclaim" =>
          claimedChannels = arbOut.before \ {arbOut.idx}

\* ClaimChannel has passed the claimed channels 0 to 4 and returned 5, the
\* lower of the two channels that were free.
C27_Witness ==
    /\ arbOut.op = "ClaimChannel"
    /\ arbOut.ok
    /\ arbOut.idx = 5
    /\ arbOut.before = C27_Channels \ {5, 9}

-----------------------------------------------------------------------------
(* The PIO program timer                                                   *)

\* Rising edges of the PPS signal in one run of the program.
MaxRises == 6
\* Clocks of the state machine a level of the PPS signal lasts at least
\* (the signal is high for milliseconds of every second).
MinHold == 3

\* one more clock has passed since the level of the pin changed
Clocked(seen) ==
    [seen EXCEPT !.held = IF @ < MinHold THEN @ + 1 ELSE @]

\* set x, 2
PioSet ==
    /\ pioPc = "set"
    /\ pioX' = 2
    /\ pioPc' = "wait1"
    /\ pioSeen' = Clocked(pioSeen)
    /\ UNCHANGED <<pin, rxFifo, arbVars, enVars, outsideSetup>>

\* wait 1 gpio 10: the state machine stays here while the pin is low
PioWaitHigh ==
    /\ pioPc = "wait1"
    /\ pioPc' = IF pin = 1 THEN "in" ELSE "wait1"
    /\ pioSeen' = Clocked(pioSeen)
    /\ UNCHANGED <<pioX, pin, rxFifo, arbVars, enVars, outsideSetup>>

\* in x, 32 with SetInShift(false, true, 32): the 32 bits of x fill the
\* input shift register, which is pushed to the receive FIFO at once
PioIn ==
    /\ pioPc = "in"
    /\ rxFifo' = Append(rxFifo, pioX)
    /\ pioPc' = "wait0"
    /\ pioSeen' = [Clocked(pioSeen) EXCEPT !.pushes = @ + 1]
    /\ UNCHANGED <<pioX, pin, arbVars, enVars, outsideSetup>>

\* wait 0 gpio 10, then .wrap: the state machine stays here while the pin
\* is high and goes on at .wrap_target
PioWaitLow ==
    /\ pioPc = "wait0"
    /\ pioPc' = IF pin = 0 THEN "wait1" ELSE "wait0"
    /\ pioSeen' = Clocked(pioSeen)
    /\ UNCHANGED <<pioX, pin, rxFifo, arbVars, enVars, outsideSetup>>

\* d0 moves the word at the head of the receive FIFO to the trigger of d1
D0Move ==
    /\ rxFifo # << >>
    /\ rxFifo' = Tail(rxFifo)
    /\ UNCHANGED <<pioPc, pioX, pin, pioSeen, arbVars, enVars, outsideSetup>>

\* The PPS signal changes its level.  A level lasts MinHold clocks at
\* least, and d0 has moved a word by then.
PinChange ==
    /\ pioSeen.held >= MinHold
    /\ rxFifo = << >>
    /\ pin = 0 => pioSeen.rises < MaxRises
    /\ pin' = 1 - pin
    /\ pioSeen' = [pioSeen EXCEPT !.held = 0,
                                  !.rises = IF pin = 0 THEN @ + 1 ELSE @]
    /\ UNCHANGED <<pioPc, pioX, rxFifo, arbVars, enVars, outsideSetup>>

\* sm.ClearFIFOs(); sm.SetEnabled(true): the program starts at a moment
\* of the second that nothing chooses, with the PPS signal low or high.
InitPio ==
    /\ pc = "setup"
    /\ timer = 0
    /\ ReduceIdle
    /\ prevT0 = 0 /\ atTl1 = 0 /\ burst = 0 /\ calls = 0
    /\ NfIdle
    /\ SiIdle
    /\ PipeIdle
    /\ ArbIdle
    /\ EnIdle
    /\ pioPc = "set" /\ pioX = 0 /\ rxFifo = << >>
    /\ pin \in {0, 1}
    /\ pioSeen = [rises |-> 0, pushes |-> 0, held |-> 0]

NextPio ==
    PioSet \/ PioWaitHigh \/ PioIn \/ PioWaitLow \/ D0Move \/ PinChange

SpecPio == InitPio /\ [][NextPio]_vars

\* C28: every word in the receive FIFO is 2; the program has pushed one word
\* for every rising edge of the pin since it started, the word of the last
\* edge at the latest when it waits for the pin to drop, and no other word.
C28_OneWordPerRisingEdge ==
    /\ \A i \in 1 .. Len(rxFifo) : rxFifo[i] = 2
    /\ pioSeen.pushes <= pioSeen.rises
    /\ pioSeen.rises <= pioSeen.pushes + 1
    /\ pioPc = "wait0" => pioSeen.pushes = pioSeen.rises

-----------------------------------------------------------------------------
(* machine_x.SetEN_CH                                                      *)

\* The highest PWM channel SetEN_CH is called with (11 in the source).
MaxCh == 8

\* the bit positions of a uint32
Word32 == 0 .. 31

\* 0xfe
LowMask == 1 .. 7

\* ^w
BitNot(w) == Word32 \ w

\* SetEN_CH(channels, value) with rp.PWM.EN holding old: the value it sets
SetEN_CH(old, channels, value) ==
    LET mask == BitNot(channels \cap LowMask)
        v == IF value # 0 THEN channels ELSE {}
    IN  (old \cap mask) \cup v

\* a call of SetEN_CH with any OR of the channel constants
CallSetEN_CH ==
    /\ pc = "enable"
    /\ \E channels \in SUBSET (0 .. MaxCh), value \in {0, 1, 2} :
           /\ pwmEN' = SetEN_CH(pwmEN, channels, value)
           /\ enOut' = [channels |-> channels, value |-> value,
                         old |-> pwmEN]
    /\ pc' = "enabled"
    /\ UNCHANGED <<timer, reduceVars, prevT0, atTl1, burst, calls, nfVars,
                   siVars, pipeVars, arbVars, pioVars>>

\* The call finds the register as earlier calls and Configure left it: any
\* of the channels may be enabled.
InitEnable ==
    /\ pc = "enable"
    /\ timer = 0
    /\ ReduceIdle
    /\ prevT0 = 0 /\ atTl1 = 0 /\ burst = 0 /\ calls = 0
    /\ NfIdle
    /\ SiIdle
    /\ PipeIdle
    /\ ArbIdle
    /\ PioIdle
    /\ pwmEN \in SUBSET (0 .. MaxCh)
    /\ enOut = [channels |-> {}, value |-> 0, old |-> pwmEN]

NextEnable == CallSetEN_CH

SpecEnable == InitEnable /\ [][NextEnable]_vars

\* C29: after a call of SetEN_CH the enable bit of every channel of the mask
\* is 1 when value was not 0 and 0 when it was 0, and the enable bit of every
\* other channel is what it was before the call.
C29_EnableBitsFollowMask ==
    pc = "enabled" => \A ch \in Word32 :
        IF ch \in enOut.channels
        THEN ch \in pwmEN <=> enOut.value # 0
        ELSE ch \in pwmEN <=> ch \in enOut.old

-----------------------------------------------------------------------------
(* main's loop to its end                                                  *)

\* The pipeline of SpecFault with what keeps it going: the ticker keeps
\* firing and main, when it is not preempted, services the event and leaves
\* its loop; the gather, which is hardware, and the handler, which runs to
\* its return with main preempted, take their steps.
SpecMainLive ==
    /\ InitRace
    /\ [][NextFault]_vars
    /\ WF_vars(MainTimeout)
    /\ WF_vars(MainReport)
    /\ WF_vars(MainLeave)
    /\ WF_vars(GatherStep)
    /\ WF_vars(GatherOver /\ IsrPoll)
    /\ WF_vars(GatherOver /\ Collect)
    /\ WF_vars(GatherOver /\ TaintB1)
    /\ WF_vars(GatherOver /\ TaintB2)
    /\ WF_vars(GatherOver /\ IsrSend)

\* C30: every change of main's loop counter is one event serviced, a ticker
\* event or a Sample; main is in the bootloader only when it has serviced
\* exactly MaxEvents events (100 in the source); and with the ticker firing
\* main always gets there, with or without Samples.
C30_LoopEndsInBootloader ==
    /\ [][ mainI' # mainI =>
              /\ mainI' = mainI + 1
              /\ logged'.event \in {"timeout", "sample"}
              /\ pc' = "select" ]_vars
    /\ [](pc = "bootloader" => mainI = MaxEvents)
    /\ <>(pc = "bootloader")

\* main has reached the bootloader and no PPS edge ever came
C30_Witness ==
    /\ pc = "bootloader"
    /\ edges = 0
    /\ logged.event = "timeout"
    /\ logged.misses = MaxEvents

=============================================================================
